---- MODULE Spec2Model ----
(***************************************************************************)
(* Payment-terms import: spreadsheet rows -> PaymentTerm list -> QBXML     *)
(* batch request -> QuickBooks session -> reconciled list of created names.*)
(* Model of src/xlsx_reader/excel_processor.py, and of the GUI shell of    *)
(* src/xlsx_reader/gui.py that runs the pipeline on a worker thread.       *)
(*                                                                         *)
(* Text is modelled at the level the code works on it.  A Python str is a  *)
(* sequence of one-character strings.  An XML document is a sequence of    *)
(* tokens (tags, processing instructions, entity references, character     *)
(* data), so that escaping, parsing and substring extraction are functions *)
(* that can disagree with one another.                                     *)
(***************************************************************************)
EXTENDS Integers, Sequences, FiniteSets, TLC

VARIABLES
    entry,          \* which function of the module is being called
    pc,             \* position inside the call
    rows,           \* worksheet rows (min_row=2, values_only): <<name_cell, days_cell>>
    payment_terms,  \* list[PaymentTerm]
    qbxml,          \* request document built by create_payment_terms_batch_qbxml
    qb_app,         \* local qb_app of save_payment_terms_to_quickbooks
    session,        \* local session of save_payment_terms_to_quickbooks
    response,       \* value returned by qb_app.ProcessRequest
    created,        \* local created of save_payment_terms_to_quickbooks
    warnings,       \* lines printed for per-item errors
    calls,          \* external (COM) calls made so far, in order
    pending,        \* outcome of the try body, held while the finally block runs
    result,         \* outcome of the call: what it returned or raised
    button,         \* state option of select_button (gui.py)
    status_label,   \* text option of status_label (gui.py)
    workers         \* position of each process_in_thread thread (gui.py)

\* the widgets and threads of the GUI shell
gui == <<button, status_label, workers>>

vars == <<entry, pc, rows, payment_terms, qbxml, qb_app, session, response,
          created, warnings, calls, pending, result, button, status_label,
          workers>>

----------------------------------------------------------------------------
(* Bounds of the model. *)

\* most rows of a worksheet handed to read_payment_terms on its own
MaxRows == 3
\* longest list handed to save_payment_terms_to_quickbooks
MaxSaveTerms == 2
\* most rows of a worksheet handed to process_payment_terms
MaxProcessRows == 2
\* longest list handed to create_payment_terms_batch_qbxml on its own
MaxTerms == 2
\* most characters in all the names of such a list together
MaxChars == 3
MaxClicks == 3

----------------------------------------------------------------------------
(* Python values. *)

None == "None"

\* str.strip() with no argument removes these from both ends
Whitespace == {" ", "\n", "\t"}

RECURSIVE LStrip(_)
LStrip(s) ==
    IF s # <<>> /\ Head(s) \in Whitespace THEN LStrip(Tail(s)) ELSE s

RECURSIVE RStrip(_)
RStrip(s) ==
    IF s # <<>> /\ s[Len(s)] \in Whitespace
    THEN RStrip(SubSeq(s, 1, Len(s) - 1))
    ELSE s

Strip(s) == RStrip(LStrip(s))

DigitChars == <<"0", "1", "2", "3", "4", "5", "6", "7", "8", "9">>
Digits == {DigitChars[i] : i \in 1..10}
DigitValue(c) == (CHOOSE i \in 1..10 : DigitChars[i] = c) - 1

\* str(n) of an int: its decimal text
RECURSIVE IntStr(_)
IntStr(n) ==
    IF n < 0 THEN <<"-">> \o IntStr(-n)
    ELSE IF n < 10 THEN <<DigitChars[n + 1]>>
    ELSE IntStr(n \div 10) \o <<DigitChars[(n % 10) + 1]>>

\* a set of positions, lowest first
RECURSIVE Ascending(_)
Ascending(S) ==
    IF S = {} THEN <<>>
    ELSE LET m == CHOOSE x \in S : \A y \in S : x <= y
         IN  <<m>> \o Ascending(S \ {m})

PaymentTerm(name, discount_days) ==
    [name |-> name, discount_days |-> discount_days]

\* An exception: its class, the label its message starts with, and the call
\* or operation whose failure it reports (the wrapped exception's text).
Exc(type, label, cause) == [type |-> type, label |-> label, cause |-> cause]
NoExc == Exc("", "", "")

\* What ProcessRequest handed back: a str (its text) or something that is no str.
StrResponse(text) == [isstr |-> TRUE, text |-> text]
NoResponse == [isstr |-> FALSE, text |-> <<>>]

\* How a call ended.
NotYet == [kind |-> "none", value |-> <<>>, exc |-> NoExc]
Returned(v) == [kind |-> "return", value |-> v, exc |-> NoExc]
Raised(e) == [kind |-> "raise", value |-> <<>>, exc |-> e]

----------------------------------------------------------------------------
(* XML text as tokens. *)

NoAttr == "-"

Tok(t, n, an, av) == [t |-> t, n |-> n, an |-> an, av |-> av]
Open(n) == Tok("open", n, NoAttr, NoAttr)
OpenA(n, an, av) == Tok("open", n, an, av)
Close(n) == Tok("close", n, NoAttr, NoAttr)
Chr(c) == Tok("chr", c, NoAttr, NoAttr)
Ent(e) == Tok("ent", e, NoAttr, NoAttr)
PI(n, version) == Tok("pi", n, "version", version)
NL == Chr("\n")

\* a slip: the replacement of < left out
EscapedCharNoLt(c) ==
    CASE c = "&" -> Ent("amp")
      [] c = ">" -> Ent("gt")
      [] OTHER -> Chr(c)

\* xml.sax.saxutils.escape(data) with no entities argument: & first, then > and <
EscapedChar(c) ==
    CASE c = "&" -> Ent("amp")
      [] c = ">" -> Ent("gt")
      [] c = "<" -> Ent("lt")
      [] OTHER -> Chr(c)

escape(data) == [i \in 1..Len(data) |-> EscapedChar(data[i])]

----------------------------------------------------------------------------
(* create_payment_terms_batch_qbxml *)

\* int(term.discount_days) of an int is that int; str() of it is its decimal text
DaysText(discount_days) ==
    LET text == IntStr(discount_days) IN [i \in 1..Len(text) |-> Chr(text[i])]

\* a slip: the closing StdDueDays tag written without its trailing space
StandardTermsAddRqPlainClose(safe_name, discount_days) ==
    <<Open("StandardTermsAddRq"), Open("StandardTermsAdd"), Open("Name")>>
    \o safe_name
    \o <<Close("Name"),
         Open("StdDueDays ")>>
    \o DaysText(discount_days)
    \o <<Close("StdDueDays"),
         Close("StandardTermsAdd"), Close("StandardTermsAddRq")>>

\* One request; the StdDueDays tags carry a trailing space on both sides.
StandardTermsAddRq(safe_name, discount_days) ==
    <<Open("StandardTermsAddRq"), Open("StandardTermsAdd"), Open("Name")>>
    \o safe_name
    \o <<Close("Name"),
         Open("StdDueDays ")>>
    \o DaysText(discount_days)
    \o <<Close("StdDueDays "),
         Close("StandardTermsAdd"), Close("StandardTermsAddRq")>>

\* The loop over payment_terms: a term whose stripped name is empty is skipped.
RECURSIVE Requests(_)
Requests(terms) ==
    IF terms = <<>> THEN <<>>
    ELSE LET term == Head(terms)
             name == Strip(term.name)
         IN  IF name = <<>>
             THEN Requests(Tail(terms))
             ELSE <<StandardTermsAddRq(escape(name), term.discount_days)>>
                  \o Requests(Tail(terms))

\* chr(10).join(requests)
RECURSIVE JoinLines(_)
JoinLines(requests) ==
    IF requests = <<>> THEN <<>>
    ELSE IF Len(requests) = 1 THEN Head(requests)
    ELSE Head(requests) \o <<NL>> \o JoinLines(Tail(requests))

create_payment_terms_batch_qbxml(terms) ==
    LET inner == JoinLines(Requests(terms))
    IN  <<PI("xml", "1.0"), NL, PI("qbxml", "13.0"), NL, Open("QBXML"), NL,
          OpenA("QBXMLMsgsRq", "onError", "continueOnError"), NL>>
        \o inner
        \o (IF inner # <<>> THEN <<NL>> ELSE <<>>)
        \o <<Close("QBXMLMsgsRq"), NL, Close("QBXML")>>

\* a slip: the escaped name stored back into the term (term.name = escape(...))
RECURSIVE EscapedInPlace(_)
EscapedInPlace(name) ==
    IF name = <<>> THEN <<>>
    ELSE (CASE Head(name) = "&" -> <<"&", "a", "m", "p", ";">>
            [] Head(name) = "<" -> <<"&", "l", "t", ";">>
            [] Head(name) = ">" -> <<"&", "g", "t", ";">>
            [] OTHER -> <<Head(name)>>) \o EscapedInPlace(Tail(name))

PaymentTermsEscapedInPlace(terms) ==
    [i \in 1..Len(terms) |->
        PaymentTerm(EscapedInPlace(terms[i].name), terms[i].discount_days)]

\* The caller's list as the builder leaves it: the loop binds the stripped and
\* the escaped name to the locals name and safe_name and assigns to no term.
PaymentTermsAfterBuild(terms) == terms

----------------------------------------------------------------------------
(* Calling create_payment_terms_batch_qbxml on its own. *)

\* characters a term name is made of here: the five XML special characters,
\* a blank and an ordinary letter
NameChars == {"A", " ", "&", "<", ">", "\"", "'"}
DaysValues == {0, 30}

StrsUpTo(chars, n) == UNION {[1..k -> chars] : k \in 0..n}

RECURSIVE TotalChars(_)
TotalChars(terms) ==
    IF terms = <<>> THEN 0 ELSE Len(Head(terms).name) + TotalChars(Tail(terms))

\* the threads process_payment_terms_background may start
Threads == 1..MaxClicks

\* The window as run_app builds it: the button enabled, no thread started.
GuiIdle ==
    /\ button = "normal"
    /\ status_label = "Select an Excel file to import payment terms"
    /\ workers = [w \in Threads |-> "unborn"]

Idle ==
    /\ rows = <<>> /\ payment_terms = <<>> /\ qbxml = <<>>
    /\ qb_app = None /\ session = None /\ response = NoResponse
    /\ created = <<>> /\ warnings = <<>> /\ calls = <<>>
    /\ pending = NotYet /\ result = NotYet
    /\ GuiIdle

InitBuild == entry = "build" /\ pc = "args" /\ Idle

\* The caller constructs one more PaymentTerm for the list it will pass.
NewPaymentTerm ==
    /\ entry = "build" /\ pc = "args"
    /\ Len(payment_terms) < MaxTerms
    /\ \E name \in StrsUpTo(NameChars, MaxChars - TotalChars(payment_terms)),
          d \in DaysValues :
          payment_terms' = Append(payment_terms, PaymentTerm(name, d))
    /\ UNCHANGED <<gui, entry, pc, rows, qbxml, qb_app, session, response, created,
                   warnings, calls, pending, result>>

CallBuild ==
    /\ entry = "build" /\ pc = "args"
    /\ qbxml' = create_payment_terms_batch_qbxml(payment_terms)
    /\ payment_terms' = PaymentTermsAfterBuild(payment_terms)
    /\ result' = Returned(qbxml')
    /\ pc' = "done"
    /\ UNCHANGED <<gui, entry, rows, qb_app, session, response,
                   created, warnings, calls, pending>>

NextBuild == NewPaymentTerm \/ CallBuild

SpecBuild == InitBuild /\ [][NextBuild]_vars

----------------------------------------------------------------------------
(* read_payment_terms *)

\* A worksheet cell as openpyxl hands it over (values_only=True): None, an int,
\* a float (held in tenths), a str, or a value of another type (a date).
Cell(kind, s, v) == [kind |-> kind, s |-> s, v |-> v]
NoneCell == Cell("none", <<>>, 0)
IntCell(n) == Cell("int", <<>>, n)
FloatCell(tenths) == Cell("float", <<>>, tenths)
StrCell(s) == Cell("str", s, 0)
DateCell == Cell("date", <<>>, 0)

\* an optional sign taken off the front of a literal
Unsigned(t) == IF t # <<>> /\ Head(t) \in {"+", "-"} THEN Tail(t) ELSE t
SignOf(t) == IF t # <<>> /\ Head(t) = "-" THEN -1 ELSE 1

RECURSIVE DigitsValue(_)
DigitsValue(ds) ==
    IF ds = <<>> THEN 0
    ELSE 10 * DigitsValue(SubSeq(ds, 1, Len(ds) - 1)) + DigitValue(ds[Len(ds)])

AllDigits(ds) == \A i \in 1..Len(ds) : ds[i] \in Digits

\* int(str): surrounding whitespace ignored, an optional sign, then only digits
IsIntLiteral(s) ==
    LET body == Unsigned(Strip(s)) IN body # <<>> /\ AllDigits(body)

IntLiteralValue(s) ==
    LET t == Strip(s) IN SignOf(t) * DigitsValue(Unsigned(t))

\* float(str), decimal point form: digits with at most one point among them
\* and at least one digit
PointAt(body) == {i \in 1..Len(body) : body[i] = "."}

IsFloatLiteral(s) ==
    LET body == Unsigned(Strip(s))
    IN  /\ \A i \in 1..Len(body) : body[i] \in Digits \cup {"."}
        /\ Cardinality(PointAt(body)) <= 1
        /\ \E i \in 1..Len(body) : body[i] \in Digits

\* int(float(str)): the fraction is cut off, towards zero
FloatLiteralTruncated(s) ==
    LET t == Strip(s)
        body == Unsigned(t)
        whole == IF PointAt(body) = {} THEN body
                 ELSE SubSeq(body, 1, (CHOOSE i \in PointAt(body) : TRUE) - 1)
    IN  SignOf(t) * DigitsValue(whole)

\* int(x) of a float cell: towards zero
Truncated(tenths) ==
    IF tenths >= 0 THEN tenths \div 10 ELSE -((-tenths) \div 10)

\* str(name_cell)
CellStr(cell) ==
    CASE cell.kind = "str" -> cell.s
      [] cell.kind = "int" -> IntStr(cell.v)
      [] OTHER -> <<"?">>

\* int(days_cell) succeeds
IntOk(cell) ==
    \/ cell.kind \in {"int", "float"}
    \/ cell.kind = "str" /\ IsIntLiteral(cell.s)

\* int(float(days_cell)) succeeds
IntOfFloatOk(cell) ==
    \/ cell.kind \in {"int", "float"}
    \/ cell.kind = "str" /\ IsFloatLiteral(cell.s)

IntOf(cell) ==
    CASE cell.kind = "int" -> cell.v
      [] cell.kind = "float" -> Truncated(cell.v)
      [] cell.kind = "str" /\ IsIntLiteral(cell.s) -> IntLiteralValue(cell.s)
      [] OTHER -> FloatLiteralTruncated(cell.s)

\* What one pass of the loop body does with a row: "skip" (continue),
\* "append" (a PaymentTerm is appended) or "raise" (TypeError leaves the loop).
RowStep(row) ==
    LET name_cell == IF Len(row) >= 1 THEN row[1] ELSE NoneCell
        days_cell == IF Len(row) >= 2 THEN row[2] ELSE NoneCell
        name == Strip(CellStr(name_cell))
    IN  IF row = <<>> THEN "skip"
        ELSE IF name_cell = NoneCell THEN "skip"
        ELSE IF name = <<>> THEN "skip"
        ELSE IF days_cell = NoneCell THEN "skip"
        ELSE IF IntOk(days_cell) THEN "append"
        ELSE IF IntOfFloatOk(days_cell) THEN "append"
        ELSE "raise"

RowTerm(row) == PaymentTerm(Strip(CellStr(row[1])), IntOf(row[2]))

\* The loop over the rows, with the list built so far.
RECURSIVE ReadRows(_, _)
ReadRows(rest, terms) ==
    IF rest = <<>> THEN Returned(terms)
    ELSE LET step == RowStep(Head(rest))
         IN  CASE step = "skip" -> ReadRows(Tail(rest), terms)
               [] step = "append" ->
                      ReadRows(Tail(rest), Append(terms, RowTerm(Head(rest))))
               [] OTHER -> Raised(Exc("TypeError", "Invalid discount_days for term",
                                      "int(float(days_cell))"))

read_payment_terms(sheet) == ReadRows(sheet, <<>>)

----------------------------------------------------------------------------
(* Calling read_payment_terms on its own. *)

NameCells ==
    { NoneCell, StrCell(<<>>), StrCell(<<" ">>),
      StrCell(<<"N", "e", "t", " ", "3", "0">>),
      StrCell(<<" ", "N", "e", "t", " ", "1", "5", " ">>),
      IntCell(30) }

DaysCells ==
    { NoneCell, IntCell(30), IntCell(15), FloatCell(307), FloatCell(-15),
      StrCell(<<"3", "0">>), StrCell(<<"3", "0", ".", "0">>),
      StrCell(<<" ", "-", "7", " ">>), StrCell(<<"t", "e", "n">>),
      StrCell(<<>>), DateCell }

SheetRows ==
    {<<>>} \cup {<<n>> : n \in NameCells}
           \cup {<<n, d>> : n \in NameCells, d \in DaysCells}

InitRead == entry = "read" /\ pc = "args" /\ Idle

\* The worksheet holds one more data row.
AppendRow ==
    /\ entry = "read" /\ pc = "args"
    /\ Len(rows) < MaxRows
    /\ \E row \in SheetRows : rows' = Append(rows, row)
    /\ UNCHANGED <<gui, entry, pc, payment_terms, qbxml, qb_app, session, response,
                   created, warnings, calls, pending, result>>

CallRead ==
    /\ entry = "read" /\ pc = "args"
    /\ result' = read_payment_terms(rows)
    /\ payment_terms' = result'.value
    /\ pc' = "done"
    /\ UNCHANGED <<gui, entry, rows, qbxml, qb_app, session, response, created,
                   warnings, calls, pending>>

NextRead == AppendRow \/ CallRead

SpecRead == InitRead /\ [][NextRead]_vars

----------------------------------------------------------------------------
(* xml.etree.ElementTree on a token text. *)

KnownEntities == {"amp", "lt", "gt", "quot", "apos"}

\* ET.fromstring(text) succeeds.  stack holds the names of the open elements,
\* rooted says the document element has been opened.
RECURSIVE Parses(_, _, _, _)
Parses(text, i, stack, rooted) ==
    IF i > Len(text) THEN stack = <<>> /\ rooted
    ELSE LET tok == text[i]
         IN  CASE tok.t = "pi" ->
                      /\ (tok.n = "xml" => i = 1)
                      /\ Parses(text, i + 1, stack, rooted)
               [] tok.t = "open" ->
                      /\ ~(stack = <<>> /\ rooted)
                      /\ Parses(text, i + 1, <<tok.n>> \o stack, TRUE)
               [] tok.t = "close" ->
                      /\ stack # <<>>
                      /\ Head(stack) = tok.n
                      /\ Parses(text, i + 1, Tail(stack), rooted)
               [] tok.t = "chr" ->
                      /\ tok.n \notin {"&", "<"}
                      /\ (stack = <<>> => tok.n \in Whitespace)
                      /\ Parses(text, i + 1, stack, rooted)
               [] tok.t = "ent" ->
                      /\ stack # <<>>
                      /\ tok.n \in KnownEntities
                      /\ Parses(text, i + 1, stack, rooted)
               [] OTHER -> FALSE

WellFormed(text) == Parses(text, 1, <<>>, FALSE)

\* In a well-formed text: the closing tag of the element opened at i.
RECURSIVE EndOf(_, _, _)
EndOf(text, j, depth) ==
    IF j > Len(text) THEN Len(text) + 1
    ELSE IF text[j].t = "open" THEN EndOf(text, j + 1, depth + 1)
    ELSE IF text[j].t = "close"
         THEN (IF depth = 0 THEN j ELSE EndOf(text, j + 1, depth - 1))
    ELSE EndOf(text, j + 1, depth)

ElementEnd(text, i) == EndOf(text, i + 1, 0)

\* the document element: ET.fromstring returns it
RootOf(text) == CHOOSE i \in 1..Len(text) :
                    text[i].t = "open" /\ \A k \in 1..(i - 1) : text[k].t # "open"

\* el.findall(".//tag"), el.find(".//tag"): the descendants of the element
\* opened at i that carry the tag, in document order (el itself is not one)
Descendants(text, i, tag) ==
    {j \in (i + 1)..(ElementEnd(text, i) - 1) : text[j].t = "open" /\ text[j].n = tag}

\* the character a token of character data stands for
Decoded(tok) ==
    IF tok.t = "chr" THEN tok.n
    ELSE CASE tok.n = "amp" -> "&"
           [] tok.n = "lt" -> "<"
           [] tok.n = "gt" -> ">"
           [] tok.n = "quot" -> "\""
           [] OTHER -> "'"

\* el.text: the character data between the start tag at i and the first child
\* or the end tag; <<>> stands for both None and ""
RECURSIVE TextFrom(_, _)
TextFrom(text, j) ==
    IF j <= Len(text) /\ text[j].t \in {"chr", "ent"}
    THEN <<Decoded(text[j])>> \o TextFrom(text, j + 1)
    ELSE <<>>

ElementText(text, i) == TextFrom(text, i + 1)

\* rs.attrib.get("statusCode")
StatusCode(tok) == IF tok.an = "statusCode" THEN tok.av ELSE None

Warning(status, msg) == [status |-> status, msg |-> msg]

\* a slip: every status but "3100" taken for success
RsCreatedUnlessExists(text, i) ==
    LET names == Descendants(text, i, "Name")
        name_el == CHOOSE j \in names : \A k \in names : j <= k
    IN  IF StatusCode(text[i]) # "3100" /\ names # {} /\ ElementText(text, name_el) # <<>>
        THEN <<ElementText(text, name_el)>>
        ELSE <<>>

\* One pass of the loop over the StandardTermsAddRs elements: what the element
\* opened at i adds to created and to the printed warnings.
RsCreated(text, i) ==
    LET names == Descendants(text, i, "Name")
        name_el == CHOOSE j \in names : \A k \in names : j <= k
    IN  IF StatusCode(text[i]) = "0" /\ names # {} /\ ElementText(text, name_el) # <<>>
        THEN <<ElementText(text, name_el)>>
        ELSE <<>>

\* a slip: the "3100" branch left out, so that a duplicate is warned about
RsWarningsOnExists(text, i) ==
    LET status == StatusCode(text[i])
    IN  IF status = "0" THEN <<>> ELSE <<Warning(status, <<None>>)>>

RsWarnings(text, i) ==
    LET status == StatusCode(text[i])
        msgs == Descendants(text, i, "StatusMessage")
        msg_el == CHOOSE j \in msgs : \A k \in msgs : j <= k
    IN  IF status = "0" \/ status = "3100" THEN <<>>
        ELSE <<Warning(status,
                       IF msgs # {} /\ ElementText(text, msg_el) # <<>>
                       THEN ElementText(text, msg_el) ELSE <<None>>)>>

RECURSIVE Reconciled(_, _)
Reconciled(text, elements) ==
    IF elements = <<>> THEN [created |-> <<>>, warnings |-> <<>>]
    ELSE LET rest == Reconciled(text, Tail(elements))
         IN  [created |-> RsCreated(text, Head(elements)) \o rest.created,
              warnings |-> RsWarnings(text, Head(elements)) \o rest.warnings]

\* root.findall(".//StandardTermsAddRs") and the loop over it
Reconcile(text) ==
    Reconciled(text, Ascending(Descendants(text, RootOf(text), "StandardTermsAddRs")))

----------------------------------------------------------------------------
(* The substring fallback taken when ET.fromstring raises. *)

EntityChars(e) ==
    CASE e = "amp" -> <<"a", "m", "p">>
      [] e = "lt" -> <<"l", "t">>
      [] e = "gt" -> <<"g", "t">>
      [] e = "quot" -> <<"q", "u", "o", "t">>
      [] e = "apos" -> <<"a", "p", "o", "s">>
      [] OTHER -> <<e>>

\* the characters of the str a token is written with; a tag is kept in one piece
Raw(tok) ==
    CASE tok.t = "chr" -> <<tok.n>>
      [] tok.t = "ent" -> <<"&">> \o EntityChars(tok.n) \o <<";">>
      [] tok.t = "open" -> <<"<", tok.n, tok.an, tok.av, ">">>
      [] tok.t = "close" -> <<"</", tok.n, ">">>
      [] OTHER -> <<"<?", tok.n, tok.an, tok.av, "?>">>

RECURSIVE RawText(_)
RawText(toks) ==
    IF toks = <<>> THEN <<>> ELSE Raw(Head(toks)) \o RawText(Tail(toks))

\* 'statusCode="0"' in response
HasSuccessCode(text) ==
    \E i \in 1..Len(text) : text[i].an = "statusCode" /\ text[i].av = "0"

\* part.split("</Name>", 1)[0] of the part that starts at j
RECURSIVE UpToNameEnd(_, _)
UpToNameEnd(text, j) ==
    IF j > Len(text) \/ text[j] = Close("Name") \/ text[j] = Open("Name") THEN <<>>
    ELSE <<text[j]>> \o UpToNameEnd(text, j + 1)

\* for part in response.split("<Name>")[1:]: one name per <Name> found
RECURSIVE NamesAfter(_, _)
NamesAfter(text, starts) ==
    IF starts = <<>> THEN <<>>
    ELSE <<RawText(UpToNameEnd(text, Head(starts) + 1))>>
         \o NamesAfter(text, Tail(starts))

\* a slip: the names collected without the test for a success code
FallbackNamesUntested(text) ==
    NamesAfter(text, Ascending({i \in 1..Len(text) : text[i] = Open("Name")}))

FallbackNames(text) ==
    IF HasSuccessCode(text)
    THEN NamesAfter(text, Ascending({i \in 1..Len(text) : text[i] = Open("Name")}))
    ELSE <<>>

----------------------------------------------------------------------------
(* The QuickBooks request processor: what ProcessRequest may hand back. *)

\* How the service answers one request: created, created but echoed without
\* a name, already there (the name echoed), rejected with a message, refused
\* without one (the name echoed), or an answer element without a statusCode
\* attribute.
Answers == {"created", "nameless", "exists", "rejected", "refused", "uncoded"}

StandardTermsAddRs(answer, safe_name) ==
    CASE answer = "created" ->
             <<OpenA("StandardTermsAddRs", "statusCode", "0"),
               Open("StandardTermsRet"), Open("Name")>>
             \o safe_name
             \o <<Close("Name"), Close("StandardTermsRet"), Close("StandardTermsAddRs")>>
      [] answer = "nameless" ->
             <<OpenA("StandardTermsAddRs", "statusCode", "0"),
               Open("StandardTermsRet"), Close("StandardTermsRet"),
               Close("StandardTermsAddRs")>>
      [] answer = "exists" ->
             <<OpenA("StandardTermsAddRs", "statusCode", "3100"),
               Open("StandardTermsRet"), Open("Name")>>
             \o safe_name
             \o <<Close("Name"), Close("StandardTermsRet"), Close("StandardTermsAddRs")>>
      [] answer = "rejected" ->
             <<OpenA("StandardTermsAddRs", "statusCode", "3120"),
               Open("StatusMessage"), Chr("m"), Close("StatusMessage"),
               Close("StandardTermsAddRs")>>
      [] answer = "refused" ->
             <<OpenA("StandardTermsAddRs", "statusCode", "3180"), Open("Name")>>
             \o safe_name
             \o <<Close("Name"), Close("StandardTermsAddRs")>>
      [] OTHER ->
             <<Open("StandardTermsAddRs"), Close("StandardTermsAddRs")>>

\* where the requests of a document start, first to last
RqStarts(doc) ==
    Ascending({i \in 1..Len(doc) : doc[i] = Open("StandardTermsAddRq")})

\* the tokens of the request starting at i, up to its closing tag
RqAt(doc, i) ==
    LET ends == {j \in i..Len(doc) : doc[j] = Close("StandardTermsAddRq")}
    IN  IF ends = {} THEN SubSeq(doc, i, Len(doc))
        ELSE SubSeq(doc, i, CHOOSE j \in ends : \A e \in ends : j <= e)

\* the tokens between <Name> and </Name> of a request
NameContent(rq) ==
    LET o == CHOOSE i \in 1..Len(rq) : rq[i] = Open("Name")
        c == CHOOSE j \in o..Len(rq) :
                 rq[j] = Close("Name") /\ \A k \in o..(j - 1) : rq[k] # Close("Name")
    IN  SubSeq(rq, o + 1, c - 1)

\* the names the requests of a document carry, as written in it
RequestNames(doc) ==
    LET starts == RqStarts(doc)
    IN  [k \in 1..Len(starts) |-> NameContent(RqAt(doc, starts[k]))]

RECURSIVE AnswerElements(_, _)
AnswerElements(names, answers) ==
    IF names = <<>> THEN <<>>
    ELSE StandardTermsAddRs(Head(answers), Head(names))
         \o AnswerElements(Tail(names), Tail(answers))

\* The response to a request document when the k-th request is answered answers[k].
ResponseText(doc, answers) ==
    <<PI("xml", "1.0"), Open("QBXML"), Open("QBXMLMsgsRs")>>
    \o AnswerElements(RequestNames(doc), answers)
    \o <<Close("QBXMLMsgsRs"), Close("QBXML")>>

Without(text, k) == SubSeq(text, 1, k - 1) \o SubSeq(text, k + 1, Len(text))

\* The values ProcessRequest may return for a request document: a response
\* answering each request, such a response with one token lost on the way, or
\* a value that is no str.
Responses(doc) ==
    LET whole == {ResponseText(doc, a) : a \in [1..Len(RqStarts(doc)) -> Answers]}
    IN  {StrResponse(text) : text \in whole}
        \cup UNION {{StrResponse(Without(text, k)) : k \in 1..Len(text)} : text \in whole}
        \cup {NoResponse}

----------------------------------------------------------------------------
(* save_payment_terms_to_quickbooks and process_payment_terms *)

ConnectLabel == "Failed to connect to QuickBooks"
NoTermsLabel == "No payment terms found in the 'payment_terms' sheet."

\* except Exception as exc: raise RuntimeError(f"Failed to connect to QuickBooks: {exc}")
Wrapped(cause) == Raised(Exc("RuntimeError", ConnectLabel, cause))

Called(name, ok) == [call |-> name, ok |-> ok]

\* The finally block: release only when both locals are set; otherwise the
\* call ends at once.
AfterTry(app, sess) ==
    IF app # None /\ sess # None THEN "EndSession" ELSE "exit"

\* a slip: EndSession tried again when it raised
AfterEndSessionRetry(raised) == IF raised THEN "EndSession" ELSE "CloseConnection"

\* a slip: both release calls inside one try, so that a raising EndSession
\* skips CloseConnection
AfterEndSessionOneTry(raised) == IF raised THEN "exit" ELSE "CloseConnection"

\* except Exception: pass around EndSession: CloseConnection comes next
\* whether EndSession raised or not.
AfterEndSession(raised) == "CloseConnection"

\* a slip: no except around a release call, so that its exception leaves the
\* finally block in place of the held outcome
AfterReleaseUncaught(held, raised) ==
    IF raised THEN Raised(Exc("com_error", "release failed", "release")) ELSE held

\* except Exception: pass: an exception of a release call is dropped and the
\* outcome held since the try body stays.
AfterRelease(held, raised) == held

\* The try body from the response on: parse, reconcile, or fall back.
\* ET.fromstring of a value that is no str raises TypeError, the fallback's
\* "in" test raises on it again, and the outer except wraps that.
TryBodyEnd(resp) ==
    IF ~resp.isstr
    THEN [created |-> <<>>, warnings |-> <<>>,
          outcome |-> Wrapped("'statusCode=\"0\"' in response")]
    ELSE IF WellFormed(resp.text)
    THEN LET r == Reconcile(resp.text)
         IN  [created |-> r.created, warnings |-> r.warnings,
              outcome |-> Returned(r.created)]
    ELSE [created |-> FallbackNames(resp.text), warnings |-> <<>>,
          outcome |-> Returned(FallbackNames(resp.text))]

\* a slip: the check for an empty list left out
NoneFoundUnchecked(terms) == FALSE

\* if not payment_terms
NoneFound(terms) == terms = <<>>

\* process_payment_terms up to its call of save_payment_terms_to_quickbooks
CallProcess ==
    /\ entry = "process" /\ pc = "process"
    /\ LET read == read_payment_terms(rows)
       IN  IF read.kind = "raise"
           THEN /\ result' = read
                /\ pc' = "done"
                /\ UNCHANGED payment_terms
           ELSE IF NoneFound(read.value)
           THEN /\ result' = Raised(Exc("ValueError", NoTermsLabel, "no rows"))
                /\ pc' = "done"
                /\ UNCHANGED payment_terms
           ELSE /\ payment_terms' = read.value
                /\ pc' = "save"
                /\ UNCHANGED result
    /\ UNCHANGED <<gui, entry, rows, qbxml, qb_app, session, response, created,
                   warnings, calls, pending>>

\* save_payment_terms_to_quickbooks up to the try statement
CallSave ==
    /\ pc = "save"
    /\ IF payment_terms = <<>>
       THEN /\ result' = Returned(<<>>)
            /\ pc' = "done"
            /\ UNCHANGED <<qbxml, payment_terms>>
       ELSE /\ qbxml' = create_payment_terms_batch_qbxml(payment_terms)
            /\ payment_terms' = PaymentTermsAfterBuild(payment_terms)
            /\ pc' = "Dispatch"
            /\ UNCHANGED result
    /\ UNCHANGED <<gui, entry, rows, qb_app, session, response,
                   created, warnings, calls, pending>>

\* connect_to_quickbooks: win32com.client.Dispatch("QBXMLRP2.RequestProcessor")
Dispatch ==
    /\ pc = "Dispatch"
    /\ \E ok \in BOOLEAN :
          /\ calls' = Append(calls, Called("Dispatch", ok))
          /\ IF ok
             THEN pc' = "OpenConnection" /\ UNCHANGED pending
             ELSE pc' = AfterTry(qb_app, session) /\ pending' = Wrapped("Dispatch")
    /\ UNCHANGED <<gui, entry, rows, payment_terms, qbxml, qb_app, session, response,
                   created, warnings, result>>

\* connect_to_quickbooks: qb_app.OpenConnection("", "Payment Terms Import")
OpenConnection ==
    /\ pc = "OpenConnection"
    /\ \E ok \in BOOLEAN :
          /\ calls' = Append(calls, Called("OpenConnection", ok))
          /\ IF ok
             THEN pc' = "BeginSession" /\ UNCHANGED pending
             ELSE pc' = AfterTry(qb_app, session) /\ pending' = Wrapped("OpenConnection")
    /\ UNCHANGED <<gui, entry, rows, payment_terms, qbxml, qb_app, session, response,
                   created, warnings, result>>

\* what BeginSession may return: a ticket, or nothing
Tickets == {"ticket", None}

\* connect_to_quickbooks: session = qb_app.BeginSession("", 2), and the
\* assignment qb_app, session = connect_to_quickbooks() on its return
BeginSession ==
    /\ pc = "BeginSession"
    /\ \/ /\ calls' = Append(calls, Called("BeginSession", FALSE))
          /\ pc' = AfterTry(qb_app, session)
          /\ pending' = Wrapped("BeginSession")
          /\ UNCHANGED <<qb_app, session>>
       \/ \E ticket \in Tickets :
             /\ calls' = Append(calls, Called("BeginSession", TRUE))
             /\ qb_app' = "RequestProcessor"
             /\ session' = ticket
             /\ pc' = "ProcessRequest"
             /\ UNCHANGED pending
    /\ UNCHANGED <<gui, entry, rows, payment_terms, qbxml, response, created,
                   warnings, result>>

\* response = qb_app.ProcessRequest(session, qbxml)
ProcessRequest ==
    /\ pc = "ProcessRequest"
    /\ \/ /\ calls' = Append(calls, Called("ProcessRequest", FALSE))
          /\ pc' = AfterTry(qb_app, session)
          /\ pending' = Wrapped("ProcessRequest")
          /\ UNCHANGED response
       \/ \E resp \in Responses(qbxml) :
             /\ calls' = Append(calls, Called("ProcessRequest", TRUE))
             /\ response' = resp
             /\ pc' = "parse"
             /\ UNCHANGED pending
    /\ UNCHANGED <<gui, entry, rows, payment_terms, qbxml, qb_app, session, created,
                   warnings, result>>

\* the rest of the try body: ET.fromstring, the loop over the answers, return
ParseResponse ==
    /\ pc = "parse"
    /\ LET end == TryBodyEnd(response)
       IN  /\ created' = end.created
           /\ warnings' = end.warnings
           /\ pending' = end.outcome
    /\ pc' = AfterTry(qb_app, session)
    /\ UNCHANGED <<gui, entry, rows, payment_terms, qbxml, qb_app, session, response,
                   calls, result>>

\* finally: qb_app.EndSession(session)
EndSession ==
    /\ pc = "EndSession"
    /\ \E ok \in BOOLEAN :
          /\ calls' = Append(calls, Called("EndSession", ok))
          /\ pending' = AfterRelease(pending, ~ok)
          /\ pc' = AfterEndSession(~ok)
    /\ UNCHANGED <<gui, entry, rows, payment_terms, qbxml, qb_app, session, response,
                   created, warnings, result>>

\* finally: qb_app.CloseConnection()
CloseConnection ==
    /\ pc = "CloseConnection"
    /\ \E ok \in BOOLEAN :
          /\ calls' = Append(calls, Called("CloseConnection", ok))
          /\ pending' = AfterRelease(pending, ~ok)
    /\ pc' = "exit"
    /\ UNCHANGED <<gui, entry, rows, payment_terms, qbxml, qb_app, session, response,
                   created, warnings, result>>

\* the finally block is over: the held return or exception leaves the call
Exit ==
    /\ pc = "exit"
    /\ result' = pending
    /\ pc' = "done"
    /\ UNCHANGED <<gui, entry, rows, payment_terms, qbxml, qb_app, session, response,
                   created, warnings, calls, pending>>

\* names of the terms handed to save_payment_terms_to_quickbooks
SaveNames == { <<"A">>, <<"B", "&">>, <<" ">> }
SaveTerms == {PaymentTerm(name, 30) : name \in SaveNames}
SaveLists == UNION {[1..n -> SaveTerms] : n \in 0..MaxSaveTerms}

\* rows of the worksheets handed to process_payment_terms
ProcessRows ==
    { <<StrCell(<<"A">>), IntCell(30)>>,
      <<StrCell(<<" ">>), IntCell(15)>>,
      <<StrCell(<<"B">>), StrCell(<<"t", "e", "n">>)>> }
ProcessSheets == UNION {[1..n -> ProcessRows] : n \in 0..MaxProcessRows}

Init ==
    /\ qbxml = <<>> /\ qb_app = None /\ session = None /\ response = NoResponse
    /\ created = <<>> /\ warnings = <<>> /\ calls = <<>>
    /\ pending = NotYet /\ result = NotYet
    /\ GuiIdle
    /\ \/ entry = "save" /\ pc = "save" /\ rows = <<>> /\ payment_terms \in SaveLists
       \/ entry = "process" /\ pc = "process" /\ payment_terms = <<>>
          /\ rows \in ProcessSheets

Next ==
    \/ CallProcess
    \/ CallSave
    \/ Dispatch
    \/ OpenConnection
    \/ BeginSession
    \/ ProcessRequest
    \/ ParseResponse
    \/ EndSession
    \/ CloseConnection
    \/ Exit

Spec == Init /\ [][Next]_vars

----------------------------------------------------------------------------
(* The GUI shell: run_app's button and the worker threads (gui.py). *)

\* The frame of the GUI steps: no call of the module is in progress in the
\* main thread; what a worker's pipeline does is the subject of Spec.
NoCall ==
    UNCHANGED <<entry, pc, rows, payment_terms, qbxml, qb_app, session,
                response, created, warnings, calls, pending, result>>

\* on_select_file, the button's command, run by the main event loop for a
\* click: Tk invokes the command of a button only while its state is not
\* "disabled".  A non-empty path was chosen, and
\* process_payment_terms_background starts the thread and returns; the thread
\* has not yet run its first statement.  (With the dialog cancelled the
\* handler does nothing.)
on_select_file ==
    /\ entry = "gui"
    /\ button = "normal"
    /\ \E w \in Threads :
          /\ workers[w] = "unborn"
          /\ \A v \in Threads : v < w => workers[v] # "unborn"
          /\ workers' = [workers EXCEPT ![w] = "started"]
    /\ UNCHANGED <<button, status_label>>
    /\ NoCall

\* process_in_thread, its first two statements: the thread disables the button
\* and announces the reading; process_payment_terms is then under way.
DisableButton(w) ==
    /\ entry = "gui"
    /\ workers[w] = "started"
    /\ button' = "disabled"
    /\ status_label' = "Reading payment terms from Excel..."
    /\ workers' = [workers EXCEPT ![w] = "pipeline"]
    /\ NoCall

\* process_in_thread: process_payment_terms returns or raises, and the thread
\* writes the outcome to the status label and the results box.
Report(w) ==
    /\ entry = "gui"
    /\ workers[w] = "pipeline"
    /\ \E text \in {"Payment terms import complete!", "Error occurred!"} :
          status_label' = text
    /\ workers' = [workers EXCEPT ![w] = "finally"]
    /\ UNCHANGED button
    /\ NoCall

\* process_in_thread, the finally block: the thread enables the button and ends.
EnableButton(w) ==
    /\ entry = "gui"
    /\ workers[w] = "finally"
    /\ button' = "normal"
    /\ workers' = [workers EXCEPT ![w] = "ended"]
    /\ UNCHANGED status_label
    /\ NoCall

InitGui == entry = "gui" /\ pc = "mainloop" /\ Idle

NextGui ==
    \/ on_select_file
    \/ \E w \in Threads : DisableButton(w)
    \/ \E w \in Threads : Report(w)
    \/ \E w \in Threads : EnableButton(w)

SpecGui == InitGui /\ [][NextGui]_vars

----------------------------------------------------------------------------
(* Reading a built document back, for the statements about it. *)

\* a name without its leading and trailing whitespace, said without recursion
Trimmed(name) ==
    LET solid == {i \in 1..Len(name) : name[i] \notin Whitespace}
    IN  IF solid = {} THEN <<>>
        ELSE SubSeq(name,
                    CHOOSE i \in solid : \A j \in solid : i <= j,
                    CHOOSE i \in solid : \A j \in solid : j <= i)

IsBlank(term) == \A i \in 1..Len(term.name) : term.name[i] \in Whitespace

\* the terms that get a request
Kept(terms) == SelectSeq(terms, LAMBDA t : ~IsBlank(t))

EmptyEnvelope ==
    <<PI("xml", "1.0"), NL, PI("qbxml", "13.0"), NL, Open("QBXML"), NL,
      OpenA("QBXMLMsgsRq", "onError", "continueOnError"), NL,
      Close("QBXMLMsgsRq"), NL, Close("QBXML")>>

BuildDone == entry = "build" /\ pc = "done"

\* the number a run of digit tokens spells, most significant digit first
RECURSIVE Spelled(_)
Spelled(toks) ==
    IF toks = <<>> THEN 0
    ELSE 10 * Spelled(SubSeq(toks, 1, Len(toks) - 1)) + DigitValue(toks[Len(toks)].n)

\* rq is the request of term: its trimmed, escaped name in a Name element, then
\* its days in decimal between <StdDueDays > and </StdDueDays >.
IsRqOf(rq, term) ==
    LET safe == escape(Trimmed(term.name))
        n == Len(safe)
        days == SubSeq(rq, n + 6, Len(rq) - 3)
    IN  /\ Len(rq) >= n + 9
        /\ SubSeq(rq, 1, n + 5) =
               <<Open("StandardTermsAddRq"), Open("StandardTermsAdd"), Open("Name")>>
               \o safe \o <<Close("Name"), Open("StdDueDays ")>>
        /\ \A i \in 1..Len(days) : days[i].t = "chr" /\ days[i].n \in Digits
        /\ (Len(days) > 1 => days[1].n # "0")
        /\ Spelled(days) = term.discount_days
        /\ SubSeq(rq, Len(rq) - 2, Len(rq)) =
               <<Close("StdDueDays "), Close("StandardTermsAdd"),
                 Close("StandardTermsAddRq")>>

\* C9 as stated: every non-empty list gives exactly one request per term, in
\* input order, the i-th request carrying the i-th term's escaped name.
C9_OnePerTerm ==
    (BuildDone /\ payment_terms # <<>>) =>
        LET starts == RqStarts(qbxml)
        IN  /\ Len(starts) = Len(payment_terms)
            /\ \A i \in 1..Len(starts) :
                  i <= Len(payment_terms) =>
                      NameContent(RqAt(qbxml, starts[i])) = escape(payment_terms[i].name)

\* C9 amended: the document holds exactly one request per term whose name is
\* not blank, in input order, the k-th carrying the k-th such term's trimmed and
\* escaped name and its days inside the trailing-space StdDueDays tags; terms
\* with a blank name get no request; the empty list gives the bare envelope.
\* The call returns the document in every case.
C9_OnePerNamedTerm ==
    BuildDone =>
        LET starts == RqStarts(qbxml)
            kept == Kept(payment_terms)
        IN  /\ result = Returned(qbxml)
            /\ Len(starts) = Len(kept)
            /\ \A k \in 1..Len(kept) :
                  k <= Len(starts) => IsRqOf(RqAt(qbxml, starts[k]), kept[k])
            /\ (payment_terms = <<>> => qbxml = EmptyEnvelope)
            /\ (kept = <<>> => qbxml = EmptyEnvelope)

\* C9 witness: a list of a blank term and a named term with padding has been
\* built, and the document holds the one request of the named term.
C9_Witness ==
    /\ BuildDone
    /\ Len(payment_terms) = 2
    /\ IsBlank(payment_terms[1])
    /\ ~IsBlank(payment_terms[2])
    /\ Trimmed(payment_terms[2].name) # payment_terms[2].name
    /\ Len(RqStarts(qbxml)) = 1

\* the characters the claim wants replaced, and the three the code replaces
FiveSpecials == {"&", "<", ">", "\"", "'"}
ThreeSpecials == {"&", "<", ">"}

EntityOf(c) ==
    CASE c = "&" -> "amp"
      [] c = "<" -> "lt"
      [] c = ">" -> "gt"
      [] c = "\"" -> "quot"
      [] c = "'" -> "apos"

\* content is name with exactly the characters of specials replaced by entities
ReplacedIn(content, name, specials) ==
    /\ Len(content) = Len(name)
    /\ \A i \in 1..Len(name) :
          i <= Len(content) =>
              content[i] = IF name[i] \in specials
                           THEN Ent(EntityOf(name[i]))
                           ELSE Chr(name[i])

\* C10 as stated: in every Name element of the document each of the five
\* special characters of the term's name is replaced by its entity, so that none
\* of the five appears raw.
C10_FiveEscaped ==
    BuildDone =>
        LET starts == RqStarts(qbxml)
            kept == Kept(payment_terms)
        IN  \A k \in 1..Len(starts) :
               k <= Len(kept) =>
                   LET content == NameContent(RqAt(qbxml, starts[k]))
                   IN  /\ ReplacedIn(content, Trimmed(kept[k].name), FiveSpecials)
                       /\ \A i \in 1..Len(content) :
                             ~(content[i].t = "chr" /\ content[i].n \in FiveSpecials)

\* C10 amended: in every Name element each &, < and > of the term's trimmed name
\* is replaced by its entity and every other character, the double quote and the
\* apostrophe included, is embedded as it is; no raw &, < or > from a name
\* appears in the document.
C10_ThreeEscaped ==
    BuildDone =>
        LET starts == RqStarts(qbxml)
            kept == Kept(payment_terms)
        IN  /\ Len(starts) = Len(kept)
            /\ \A k \in 1..Len(starts) :
                  k <= Len(kept) =>
                      ReplacedIn(NameContent(RqAt(qbxml, starts[k])),
                                 Trimmed(kept[k].name), ThreeSpecials)
            /\ \A i \in 1..Len(qbxml) :
                  ~(qbxml[i].t = "chr" /\ qbxml[i].n \in ThreeSpecials)

\* C10 witness: a name holding an ampersand, a quote and a letter has been
\* embedded: the ampersand as an entity, the quote raw.
C10_Witness ==
    /\ BuildDone
    /\ \E k \in 1..Len(payment_terms) :
          /\ \E i \in 1..Len(payment_terms[k].name) : payment_terms[k].name[i] = "&"
          /\ \E i \in 1..Len(payment_terms[k].name) : payment_terms[k].name[i] = "\""
          /\ \E i \in 1..Len(payment_terms[k].name) : payment_terms[k].name[i] = "A"
    /\ \E i \in 1..Len(qbxml) : qbxml[i] = Ent("amp")
    /\ \E i \in 1..Len(qbxml) : qbxml[i] = Chr("\"")

----------------------------------------------------------------------------
(* Statements about read_payment_terms. *)

ReadDone == entry = "read" /\ pc = "done"

\* a row with a name that is not blank and a days cell an integer can be made of
HasName(row) ==
    /\ Len(row) >= 1
    /\ row[1] # NoneCell
    /\ \E i \in 1..Len(CellStr(row[1])) : CellStr(row[1])[i] \notin Whitespace

Coercible(cell) ==
    \/ cell.kind \in {"int", "float"}
    \/ cell.kind = "str" /\ (IsIntLiteral(cell.s) \/ IsFloatLiteral(cell.s))

ValidRow(row) == HasName(row) /\ Len(row) >= 2 /\ Coercible(row[2])

\* the terms of the valid rows, in row order
RECURSIVE ValidTerms(_)
ValidTerms(sheet) ==
    IF sheet = <<>> THEN <<>>
    ELSE (IF ValidRow(Head(sheet))
          THEN <<PaymentTerm(Trimmed(CellStr(Head(sheet)[1])), IntOf(Head(sheet)[2]))>>
          ELSE <<>>)
         \o ValidTerms(Tail(sheet))

\* C7 as stated: whatever the rows, read_payment_terms raises nothing and
\* returns exactly the terms of the rows with a non-blank name and an
\* integer-coercible days value, in input order; every other row is dropped.
C7_DropsInvalidRows ==
    ReadDone => result = Returned(ValidTerms(rows))

----------------------------------------------------------------------------
(* Statements about save_payment_terms_to_quickbooks and process_payment_terms. *)

SaveDone == entry \in {"save", "process"} /\ pc = "done"

Made(name) == \E i \in 1..Len(calls) : calls[i].call = name
Failed(name) == \E i \in 1..Len(calls) : calls[i] = Called(name, FALSE)
Succeeded(name) == \E i \in 1..Len(calls) : calls[i] = Called(name, TRUE)
TimesMade(name) == Cardinality({i \in 1..Len(calls) : calls[i].call = name})
PlaceOf(name) == CHOOSE i \in 1..Len(calls) : calls[i].call = name

\* connect_to_quickbooks returned a connection and a session
Connected == Succeeded("BeginSession") /\ session # None

\* C1: once connect_to_quickbooks has returned a connection and a session,
\* EndSession and CloseConnection have both been called, once each and in this
\* order, by the time the call returns or raises, whichever way the try body
\* ended: reconciled, ProcessRequest raising, or the response handling raising.
C1_ReleasedOnEveryExit ==
    (SaveDone /\ Connected) =>
        /\ TimesMade("EndSession") = 1
        /\ TimesMade("CloseConnection") = 1
        /\ PlaceOf("ProcessRequest") < PlaceOf("EndSession")
        /\ PlaceOf("EndSession") < PlaceOf("CloseConnection")
        /\ result.kind \in {"return", "raise"}

\* C1 witness: the response handling raised (the response was no str), the
\* session was ended, which raised too, and the connection closed.
C1_Witness ==
    /\ SaveDone /\ Connected
    /\ Succeeded("ProcessRequest") /\ ~response.isstr
    /\ result.kind = "raise"
    /\ Failed("EndSession")
    /\ Made("CloseConnection")

\* what the try body ended with, from what happened before the release
TryOutcome ==
    IF Failed("ProcessRequest") THEN Raised(Exc("RuntimeError", ConnectLabel, "ProcessRequest"))
    ELSE IF ~response.isstr
    THEN Raised(Exc("RuntimeError", ConnectLabel, "'statusCode=\"0\"' in response"))
    ELSE IF WellFormed(response.text) THEN Returned(Reconcile(response.text).created)
    ELSE Returned(FallbackNames(response.text))

\* C2: a failure during release never changes the outcome: when EndSession has
\* been called, CloseConnection has been called too, whether EndSession raised
\* or not, and the call returns the list or raises the error the try body ended
\* with, whether the release calls raised or not.
C2_ReleaseFailureIgnored ==
    (SaveDone /\ Made("EndSession")) =>
        /\ Made("CloseConnection")
        /\ result = TryOutcome

\* C2 witness: both release calls raised and the call still returned the list
\* of created names.
C2_Witness ==
    /\ SaveDone
    /\ Failed("EndSession") /\ Failed("CloseConnection")
    /\ result.kind = "return" /\ result.value # <<>>

ConnectCalls == {"Dispatch", "OpenConnection", "BeginSession"}

\* C3 as stated: the call raises the "connection failed" error exactly when
\* acquiring the connection failed; a failure of ProcessRequest or of the
\* response handling is never reported as one.
C3_ConnectionFailureDistinct ==
    (SaveDone /\ result.kind = "raise") =>
        (result.exc.label = ConnectLabel <=> \E c \in ConnectCalls : Failed(c))

Unparseable(resp) == ~resp.isstr \/ ~WellFormed(resp.text)

RawNameAfter(text, o) ==
    LET stops == {j \in (o + 1)..Len(text) : text[j] \in {Close("Name"), Open("Name")}}
                 \cup {Len(text) + 1}
    IN  RawText(SubSeq(text, o + 1, (CHOOSE j \in stops : \A k \in stops : j <= k) - 1))

Parsed == SaveDone /\ Succeeded("ProcessRequest") /\ response.isstr /\ WellFormed(response.text)

\* the answer elements of a well-formed response, in document order
AnswersIn(text) ==
    Ascending({i \in 1..Len(text) :
        /\ text[i].t = "open" /\ text[i].n = "StandardTermsAddRs"
        /\ \E r \in 1..(i - 1) : text[r].t = "open"})

\* the created name an answer element carries: the text of its first Name
CreatedNameOf(text, i) ==
    LET names == {j \in (i + 1)..(ElementEnd(text, i) - 1) : text[j] = Open("Name")}
    IN  IF names = {} THEN <<>>
        ELSE ElementText(text, CHOOSE j \in names : \A k \in names : j <= k)

IsSuccess(tok) == tok.an = "statusCode" /\ tok.av = "0"
IsDuplicate(tok) == tok.an = "statusCode" /\ tok.av = "3100"

\* C5: for a well-formed response the returned list is exactly the created
\* names of the answer elements with statusCode "0", in response order; an
\* element with another status adds nothing.  When every request is answered
\* with status "0" and its name, the list holds the names of the request, as
\* many and in the same order.
C5_CreatedNamesOfSuccesses ==
    Parsed =>
        LET text == response.text
            named == SelectSeq(AnswersIn(text),
                               LAMBDA i : IsSuccess(text[i]) /\ CreatedNameOf(text, i) # <<>>)
            all_created == [k \in 1..Len(RqStarts(qbxml)) |-> "created"]
        IN  /\ result = Returned([k \in 1..Len(named) |-> CreatedNameOf(text, named[k])])
            /\ text = ResponseText(qbxml, all_created) =>
                   result.value = [k \in 1..Len(Kept(payment_terms)) |->
                                      Trimmed(Kept(payment_terms)[k].name)]

\* C5 witness: two requests, the second with an ampersand in its name, were
\* both answered with status "0", and both names came back.
C5_Witness ==
    /\ Parsed
    /\ Len(RqStarts(qbxml)) = 2
    /\ response.text = ResponseText(qbxml, <<"created", "created">>)
    /\ result.value = << <<"A">>, <<"B", "&">> >>

\* C6: while a well-formed response is reconciled, a warning is recorded for an
\* answer element exactly when its status code is neither "0" nor "3100", in
\* response order and with that status; an element with status "3100" gives no
\* entry and no warning; and whatever the status codes, the call raises nothing.
C6_WarningIffOtherStatus ==
    Parsed =>
        LET text == response.text
            other == SelectSeq(AnswersIn(text),
                               LAMBDA i : ~IsSuccess(text[i]) /\ ~IsDuplicate(text[i]))
            kept == SelectSeq(AnswersIn(text), LAMBDA i : ~IsDuplicate(text[i]))
        IN  /\ Len(warnings) = Len(other)
            /\ \A k \in 1..Len(other) :
                  k <= Len(warnings) =>
                      warnings[k].status = (IF text[other[k]].an = "statusCode"
                                            THEN text[other[k]].av ELSE None)
            /\ Len(result.value) + Len(warnings) <= Len(kept)
            /\ result.kind = "return"

\* C6 witness: a response with a duplicate and a rejected item was reconciled:
\* one warning, for the rejected item, and nothing created.
C6_Witness ==
    /\ Parsed
    /\ \E i \in 1..Len(response.text) : IsDuplicate(response.text[i])
    /\ Len(warnings) = 1 /\ warnings[1].status = "3120"
    /\ result = Returned(<<>>)

\* C8: when validation yields no payment term, process_payment_terms raises
\* the "no payment terms" ValueError, and no external call is made at any point
\* of the call.
C8_NoTermsNoCalls ==
    (entry = "process" /\ read_payment_terms(rows) = Returned(<<>>)) =>
        /\ calls = <<>>
        /\ pc \in {"process", "done"}
        /\ pc = "done" => result = Raised(Exc("ValueError", NoTermsLabel, "no rows"))

\* C8 witness: a sheet whose only rows have blank names ended in the ValueError.
C8_Witness ==
    /\ entry = "process" /\ pc = "done"
    /\ rows # <<>>
    /\ read_payment_terms(rows) = Returned(<<>>)
    /\ result.exc.type = "ValueError"

----------------------------------------------------------------------------
(* Statements about the order of the external calls. *)

\* the place of a call in the session lifecycle
Rank(name) ==
    CASE name = "Dispatch" -> 0
      [] name = "OpenConnection" -> 1
      [] name = "BeginSession" -> 2
      [] name = "ProcessRequest" -> 3
      [] name = "EndSession" -> 4
      [] OTHER -> 5

\* C11: in one execution the external calls are made only in the lifecycle
\* order OpenConnection, BeginSession, ProcessRequest, EndSession,
\* CloseConnection, each at most once; ProcessRequest is made only after
\* BeginSession succeeded and never after EndSession; and a call that failed
\* is not made again, nor is a later connection call made after it.
C11_LifecycleOrder ==
    /\ \A i, j \in 1..Len(calls) : i < j => Rank(calls[i].call) < Rank(calls[j].call)
    /\ Made("ProcessRequest") => Succeeded("BeginSession")
    /\ Made("BeginSession") => Succeeded("OpenConnection")
    /\ Made("EndSession") => Made("ProcessRequest")
    /\ \A i \in 1..Len(calls) :
          (~calls[i].ok /\ calls[i].call \in ConnectCalls) => i = Len(calls)

\* C11 witness: a whole lifecycle was run, ProcessRequest and EndSession both
\* raising, and five calls after Dispatch were made in all.
C11_Witness ==
    /\ SaveDone
    /\ Failed("ProcessRequest") /\ Failed("EndSession")
    /\ Made("CloseConnection")
    /\ Len(calls) = 6

\* C13 as stated: no connection is left open: when OpenConnection succeeded,
\* CloseConnection has been called by the time the call returns or raises,
\* also when the BeginSession that follows raises.
C13_NoConnectionLeftOpen ==
    (SaveDone /\ Succeeded("OpenConnection")) => Made("CloseConnection")

----------------------------------------------------------------------------
(* Statements about the caller's list. *)

\* C14: save_payment_terms_to_quickbooks, and the builder it calls, leave the
\* list they were given as it was (every name and discount_days, the length
\* and the order), at every step of the call; so the document built again
\* from the list after the call is the document that was built in the call,
\* with nothing escaped twice.
C14_InputsUnchanged ==
    [][pc # "process" =>
          /\ payment_terms' = payment_terms
          /\ (payment_terms' # <<>> /\ pc' # "save") =>
                create_payment_terms_batch_qbxml(payment_terms') = qbxml']_vars

\* C14 witness: a call has returned for a list with "&" in a name, and the
\* document built in it holds the entity once.
C14_Witness ==
    /\ SaveDone /\ result.kind = "return"
    /\ \E i \in 1..Len(payment_terms) : \E k \in 1..Len(payment_terms[i].name) :
          payment_terms[i].name[k] = "&"
    /\ Cardinality({k \in 1..Len(qbxml) : qbxml[k] = Ent("amp")}) = 1

----------------------------------------------------------------------------
(* Statements about the GUI shell. *)

\* the threads whose pipeline is under way
Running == {w \in Threads : workers[w] = "pipeline"}

\* C12 as stated: at most one process_payment_terms pipeline is under way at
\* any time, and the button is disabled for as long as one is: it is not
\* enabled again while a pipeline is still running.
C12_OnePipelineAtATime ==
    /\ Cardinality(Running) <= 1
    /\ Running # {} => button = "disabled"

====
